---- MODULE Spec2Model ----
(***************************************************************************)
(* Model of app.py, the Streamlit script of the direct job search bot.     *)
(*                                                                         *)
(* A Python string is a finite sequence of tokens (a token is a chunk of   *)
(* characters that the script never looks inside: a marker, a separator,   *)
(* a domain name, a word).  Substring tests, replace, split and strip are  *)
(* computed on these sequences as Python computes them on characters.      *)
(*                                                                         *)
(* One session is modelled.  Every user interaction re-runs the script     *)
(* from the top; a run is a sequence of steps separated by the calls to    *)
(* the outside world (document parser, Gemini, search provider, HEAD).     *)
(***************************************************************************)
EXTENDS Integers, Sequences, FiniteSets, TLC

VARIABLES
    session,        \* st.session_state: key -> value, keys job_titles, skills
    api_key,        \* sidebar text input
    remote_only,    \* sidebar checkbox
    uploaded_file,  \* file_uploader value
    button_shown,   \* the search button was rendered by the last run
    clicked,        \* st.button returns True in the current run
    pc,             \* position of the current run in the script
    resume_text,    \* script variable
    analysis,       \* script variable
    queries,        \* script variable
    i,              \* loop index (1-based here, 0-based in the script)
    search_results, \* the provider's generator for the current query
    all_results,    \* script variable
    messages,       \* what the current run reported to the user
    exception,      \* uncaught exception that ended the last run
    rendered,       \* the results gallery drawn by the run
    \* history variables (observations of the run, not program state)
    calls,          \* document -> number of Analyzer invocations (saturating)
    ok_calls,       \* number of Analyzer invocations that produced a Profile
    run_calls,      \* Analyzer invocations in the current run
    source,         \* key of session -> the analysis that value came from
    session0,       \* session at the start of the current run
    submitted,      \* indices of the queries handed to the provider this run
    yielded,        \* URLs the provider yielded this run, with HEAD outcomes
    error_at,       \* index of the query during which the provider raised
    results_at_error, \* all_results when the provider raised
    \* unit harness of the helper functions
    fn, arg, ret

vars == << session, api_key, remote_only, uploaded_file, button_shown, clicked,
           pc, resume_text, analysis, queries, i, search_results, all_results,
           messages, exception, rendered, calls, ok_calls, run_calls, source,
           session0, submitted, yielded, error_at, results_at_error,
           fn, arg, ret >>

-----------------------------------------------------------------------------
(* Bounds *)

MaxCalls == 2       \* the invocation counters saturate here
MaxTitles == 2      \* harness: length of the title list
MaxReplyLen == 4    \* harness: tokens of a generated model reply
MaxUrlLen == 3      \* harness: tokens of a generated URL

BoundedSeq(S, n) == UNION { [1..k -> S] : k \in 0..n }

-----------------------------------------------------------------------------
(* Python string operations on token sequences *)

\* sub in s
Contains(s, sub) ==
    \E k \in 1..(Len(s) - Len(sub) + 1) : SubSeq(s, k, k + Len(sub) - 1) = sub

\* s.endswith(suf)
EndsWith(s, suf) ==
    Len(s) >= Len(suf) /\ SubSeq(s, Len(s) - Len(suf) + 1, Len(s)) = suf

\* s.split(sep) for a one-token separator: always at least one piece
RECURSIVE Split(_, _)
Split(s, sep) ==
    IF s = <<>> THEN << <<>> >>
    ELSE LET rest == Split(Tail(s), sep)
         IN  IF Head(s) = sep
             THEN << <<>> >> \o rest
             ELSE << <<Head(s)>> \o Head(rest) >> \o Tail(rest)

\* s.replace(old, "") for a one-token old: every occurrence goes
RECURSIVE Remove(_, _)
Remove(s, old) ==
    IF s = <<>> THEN <<>>
    ELSE IF Head(s) = old THEN Remove(Tail(s), old)
    ELSE <<Head(s)>> \o Remove(Tail(s), old)

Whitespace == {" ", "\n", "\t"}

RECURSIVE LStrip(_)
LStrip(s) ==
    IF s # <<>> /\ Head(s) \in Whitespace THEN LStrip(Tail(s)) ELSE s

RECURSIVE RStrip(_)
RStrip(s) ==
    IF s # <<>> /\ s[Len(s)] \in Whitespace
    THEN RStrip(SubSeq(s, 1, Len(s) - 1)) ELSE s

\* s.strip()
Strip(s) == RStrip(LStrip(s))

\* Python's None and an unbound name, kept apart from every string
None == << "<None>" >>
Unbound == << "<unbound>" >>

\* the truth value Python gives a str-or-None
TruthyUnlessEmpty(x) == x # <<>>
Truthy(x) == x # None /\ x # <<>>

-----------------------------------------------------------------------------
(* extract_text_from_pdf / extract_text_from_docx and their dispatch *)

\* The documents a user may hold; the text the parser gets out of each.
Docs == {"d1", "d2"}
TextOf(doc) == << doc >>

\* What an extractor call can return: None after a caught parser error, the
\* text of the document, or the empty string (no page yields any text).
ExtractOutcomes(doc) == { None, <<>>, TextOf(doc) }

\* File names are <<stem, suffix>>.
LowerCase(tok) == IF tok = ".PDF" THEN ".pdf" ELSE IF tok = ".DOCX" THEN ".docx" ELSE tok

\* st.file_uploader(type=["pdf", "docx"]): the control compares the
\* extension without regard to case.
UploadAccepts(name) == LowerCase(name[Len(name)]) \in {".pdf", ".docx"}

NoFile == [name |-> <<>>, doc |-> "none"]
UserFiles == { [name |-> <<"cv", ".pdf">>, doc |-> "d1"],
               [name |-> <<"cv", ".docx">>, doc |-> "d2"],
               [name |-> <<"cv", ".PDF">>, doc |-> "d1"],
               [name |-> <<"cv", ".txt">>, doc |-> "d1"] }

\* the if / elif on uploaded_file.name: which extractor runs, if any
ExtractorFor(name) ==
    IF EndsWith(name, << ".pdf" >>) THEN "pdf"
    ELSE IF EndsWith(name, << ".docx" >>) THEN "docx"
    ELSE "none"

-----------------------------------------------------------------------------
(* Parsing of the model reply *)

Lines(text) == Split(text, "\n")

\* next((line for line in lines if marker in line), default)
FirstLineWith(lines, marker, default) ==
    IF \E k \in 1..Len(lines) : Contains(lines[k], << marker >>)
    THEN lines[CHOOSE k \in 1..Len(lines) :
                 /\ Contains(lines[k], << marker >>)
                 /\ \A j \in 1..(k - 1) : ~Contains(lines[j], << marker >>)]
    ELSE default

\* [t.strip() for t in line.replace(marker, "").split(",")]
MarkerListNoStrip(line, marker) == Split(Remove(line, marker), ",")
MarkerList(line, marker) ==
    LET parts == Split(Remove(line, marker), ",")
    IN  [k \in 1..Len(parts) |-> Strip(parts[k])]

titles_line(text) ==
    FirstLineWith(Lines(text), "TITLES:", << "TITLES:", " ", "Generalist" >>)
skills_line(text) ==
    FirstLineWith(Lines(text), "SKILLS:", << "SKILLS:", " ", "Python" >>)

extracted_titles(text) == MarkerList(titles_line(text), "TITLES:")
extracted_skills(text) == MarkerList(skills_line(text), "SKILLS:")

-----------------------------------------------------------------------------
(* is_valid_link *)

HttpOk == 200

excluded_domains ==
    << << "linkedin", ".com" >>, << "indeed", ".com" >>, << "glassdoor", ".com" >>,
       << "ziprecruiter", ".com" >>, << "monster", ".com" >>, << "simplyhired", ".com" >> >>

\* What requests.head does: it raises (timeout, DNS, malformed URL) or it
\* returns the final response's status code.
HeadRaises == [raised |-> TRUE, status |-> 0]
HeadStatus(code) == [raised |-> FALSE, status |-> code]

is_valid_link_any_success(url, head) ==
    IF \E d \in 1..Len(excluded_domains) : Contains(url, excluded_domains[d])
    THEN FALSE
    ELSE IF head.raised THEN FALSE
    ELSE head.status < 400

is_valid_link(url, head) ==
    IF \E d \in 1..Len(excluded_domains) : Contains(url, excluded_domains[d])
    THEN FALSE
    ELSE IF head.raised THEN FALSE
    ELSE IF head.status = HttpOk THEN TRUE
    ELSE FALSE

-----------------------------------------------------------------------------
(* generate_search_queries *)

base_query ==
    << "site:lever.co", " OR ", "site:greenhouse.io", " OR ",
       "site:myworkdayjobs.com", " OR ", "site:smartrecruiters.com" >>

Quoted(s) == << "\"" >> \o s \o << "\"" >>

location_param_inverted(flag) == IF flag THEN <<>> ELSE Quoted(<< "remote" >>)
location_param(flag) == IF flag THEN Quoted(<< "remote" >>) ELSE <<>>

generate_search_queries(titles, flag) ==
    [k \in 1..Len(titles) |->
        base_query \o << " " >> \o Quoted(titles[k]) \o << " " >>
        \o location_param(flag)
        \o << " ", "-intitle:archive", " ", "-intitle:closed" >>]

-----------------------------------------------------------------------------
(* st.session_state.  A key that is not in the session holds Absent. *)

Absent == << << "<absent>" >> >>
EmptySession == [job_titles |-> Absent, skills |-> Absent]
Has(ss, key) == ss[key] # Absent

NoCall == [doc |-> "none", reply |-> <<>>, n |-> 0]
NoSource == [job_titles |-> NoCall, skills |-> NoCall]

\* "job_titles" not in st.session_state: the guard of the Analyzer call
NeedsAnalysisAlways(ss) == TRUE
NeedsAnalysis(ss) == ~Has(ss, "job_titles")

\* the keys the script writes after a successful analysis, with their values
ProfileWritesTitlesOnly(titles, skills) == [job_titles |-> titles, skills |-> Absent]
ProfileWrites(titles, skills) == [job_titles |-> titles, skills |-> skills]

\* the session after those writes (a write of Absent is no write)
Written(ss, writes) ==
    [k \in DOMAIN ss |-> IF writes[k] # Absent THEN writes[k] ELSE ss[k]]

\* what Gemini can answer; None stands for any exception of the client library
GeminiReplies ==
    { None,
      <<>>,
      << "TITLES:", " ", "A", ",", " ", "B", "\n",
         "SKILLS:", " ", "X", ",", " ", "Y", ",", " ", "Z" >>,
      << "TITLES:", " ", "A", ",", " ", "B", ",", " ", "C", "\n", "SKILLS:", " ", "X" >>,
      << "TITLES:", " ", "A" >>,
      << "Sorry", "\n" >> }

-----------------------------------------------------------------------------
(* The search provider and the loop over the queries *)

\* URLs the provider may yield
UrlBoard == << "https:", "/", "/", "www.", "linkedin", ".com", "/", "jobs", "/", "1" >>
UrlLever == << "https:", "/", "/", "jobs.", "lever", ".co", "/", "acme" >>
UrlGreen == << "https:", "/", "/", "boards.", "greenhouse", ".io", "/", "x" >>
UrlRef   == << "https:", "/", "/", "jobs.", "lever", ".co", "/", "y", "?src=", "indeed", ".com" >>

Item(url, head) == [url |-> url, head |-> head]

\* result pages of the provider: each URL with what its server answers to HEAD
Feeds ==
    { << Item(UrlBoard, HeadStatus(HttpOk)), Item(UrlLever, HeadStatus(HttpOk)),
         Item(UrlGreen, HeadStatus(404)) >>,
      << Item(UrlLever, HeadStatus(HttpOk)), Item(UrlLever, HeadStatus(HttpOk)) >>,
      << Item(UrlRef, HeadStatus(HttpOk)), Item(UrlGreen, HeadRaises) >> }

\* search(...) returns a generator: it yields some URLs and then either ends
\* or raises (rate limiting, network error)
Generators ==
    UNION { { [items |-> SubSeq(f, 1, n), raises |-> b] :
                n \in 0..Len(f), b \in BOOLEAN } : f \in Feeds }

NoGenerator == [items |-> <<>>, raises |-> FALSE]

\* url.split("/")[2]
SourceOfSecond(url) == Split(url, "/")[2]
SourceOf(url) == Split(url, "/")[3]

LinkResult(role, url) == [Role |-> role, Source |-> SourceOf(url), URL |-> url]

\* where the run goes after query k of n: the next query, or the gallery
AfterQuery(k, n) == [pc |-> IF k < n THEN "loop" ELSE "results", i |-> k + 1]

\* the except branch: warn and break
AfterSearchErrorContinue(k, n) == AfterQuery(k, n)
AfterSearchError(k, n) == [pc |-> "results", i |-> k]

Msg(kind, n) == [kind |-> kind, n |-> n]

Inc(c) == IF c < MaxCalls THEN c + 1 ELSE c

-----------------------------------------------------------------------------
(* The session: user interactions and the steps of a script run *)

NoArg == [titles |-> <<>>, remote_only |-> FALSE, text |-> <<>>, head |-> HeadRaises]

Init ==
    /\ session = EmptySession
    /\ api_key = <<>>
    /\ remote_only = TRUE
    /\ uploaded_file = NoFile
    /\ button_shown = FALSE
    /\ clicked = FALSE
    /\ pc = "idle"
    /\ resume_text = Unbound
    /\ analysis = Unbound
    /\ queries = <<>>
    /\ i = 0
    /\ search_results = NoGenerator
    /\ all_results = <<>>
    /\ messages = { Msg("no_api_key", 0) }
    /\ exception = "none"
    /\ rendered = <<>>
    /\ calls = [d \in Docs |-> 0]
    /\ ok_calls = 0
    /\ run_calls = 0
    /\ source = NoSource
    /\ session0 = EmptySession
    /\ submitted = <<>>
    /\ yielded = <<>>
    /\ error_at = 0
    /\ results_at_error = <<>>
    /\ fn = "none"
    /\ arg = NoArg
    /\ ret = <<>>

Harness == << fn, arg, ret >>

\* The script starts over with the widget values the interaction left:
\* everything up to "if uploaded_file and api_key" and its elif.
Rerun(file, key, remote, click) ==
    /\ uploaded_file' = file
    /\ api_key' = key
    /\ remote_only' = remote
    /\ clicked' = click
    /\ button_shown' = FALSE
    /\ resume_text' = Unbound
    /\ analysis' = Unbound
    /\ queries' = <<>>
    /\ i' = 0
    /\ search_results' = NoGenerator
    /\ all_results' = <<>>
    /\ exception' = "none"
    /\ rendered' = <<>>
    /\ run_calls' = 0
    /\ session0' = session
    /\ submitted' = <<>>
    /\ yielded' = <<>>
    /\ error_at' = 0
    /\ results_at_error' = <<>>
    /\ IF file # NoFile /\ key # <<>>
       THEN pc' = "extract" /\ messages' = {}
       ELSE /\ pc' = "idle"
            /\ messages' = IF key = <<>> THEN { Msg("no_api_key", 0) } ELSE {}
    /\ UNCHANGED << session, calls, ok_calls, source, Harness >>

Upload ==
    /\ pc = "idle"
    /\ \E f \in UserFiles :
         /\ UploadAccepts(f.name)
         /\ f # uploaded_file
         /\ Rerun(f, api_key, remote_only, FALSE)

ClearFile ==
    /\ pc = "idle"
    /\ uploaded_file # NoFile
    /\ Rerun(NoFile, api_key, remote_only, FALSE)

EnterApiKey ==
    /\ pc = "idle"
    /\ \E k \in { <<>>, << "key" >> } :
         /\ k # api_key
         /\ Rerun(uploaded_file, k, remote_only, FALSE)

ToggleRemote ==
    /\ pc = "idle"
    /\ Rerun(uploaded_file, api_key, ~remote_only, FALSE)

ClickSearch ==
    /\ pc = "idle"
    /\ button_shown
    /\ Rerun(uploaded_file, api_key, remote_only, TRUE)

\* 1. Parse Resume, and the test "if resume_text:" that follows it
Extract ==
    /\ pc = "extract"
    /\ \E outcome \in ExtractOutcomes(uploaded_file.doc) :
         LET kind == ExtractorFor(uploaded_file.name)
             text == IF kind = "none" THEN Unbound ELSE outcome
         IN  /\ resume_text' = text
             /\ messages' = IF kind # "none" /\ outcome = None
                            THEN messages \cup { Msg(kind \o "_error", 0) }
                            ELSE messages
             /\ IF text = Unbound
                THEN /\ exception' = "NameError"
                     /\ pc' = "idle"
                ELSE /\ exception' = exception
                     /\ pc' = IF ~Truthy(text) THEN "idle"
                              ELSE IF NeedsAnalysis(session) THEN "analyze"
                              ELSE "display"
    /\ UNCHANGED << session, api_key, remote_only, uploaded_file, button_shown,
                    clicked, analysis, queries, i, search_results, all_results,
                    rendered, calls, ok_calls, run_calls, source, session0,
                    submitted, yielded, error_at, results_at_error, Harness >>

\* 2. Analyze with AI: the call, the parsing of the reply, the session writes
Analyze ==
    /\ pc = "analyze"
    /\ \E reply \in GeminiReplies :
         LET doc == uploaded_file.doc
             writes == ProfileWrites(extracted_titles(reply), extracted_skills(reply))
             this == [doc |-> doc, reply |-> reply, n |-> Inc(ok_calls)]
         IN  /\ analysis' = reply
             /\ calls' = [calls EXCEPT ![doc] = Inc(@)]
             /\ run_calls' = run_calls + 1
             /\ messages' = IF reply = None
                            THEN messages \cup { Msg("gemini_error", 0) }
                            ELSE messages
             /\ IF Truthy(reply)
                THEN /\ session' = Written(session, writes)
                     /\ source' = [k \in DOMAIN source |->
                                     IF writes[k] # Absent THEN this ELSE source[k]]
                     /\ ok_calls' = Inc(ok_calls)
                ELSE UNCHANGED << session, source, ok_calls >>
    /\ pc' = "display"
    /\ UNCHANGED << api_key, remote_only, uploaded_file, button_shown, clicked,
                    resume_text, queries, i, search_results, all_results,
                    exception, rendered, session0, submitted, yielded, error_at,
                    results_at_error, Harness >>

\* Display AI Findings, and 3. Search Button up to the start of the loop
Display ==
    /\ pc = "display"
    /\ IF Has(session, "job_titles")
       THEN /\ messages' = messages \cup { Msg("analyzed", 0) }
            /\ button_shown' = TRUE
            /\ IF clicked
               THEN LET qs == generate_search_queries(session["job_titles"], remote_only)
                    IN  /\ queries' = qs
                        /\ i' = 1
                        /\ pc' = IF Len(qs) > 0 THEN "loop" ELSE "results"
               ELSE /\ pc' = "idle"
                    /\ UNCHANGED << queries, i >>
       ELSE /\ pc' = "idle"
            /\ UNCHANGED << messages, button_shown, queries, i >>
    /\ UNCHANGED << session, api_key, remote_only, uploaded_file, clicked,
                    resume_text, analysis, search_results, all_results,
                    exception, rendered, calls, ok_calls, run_calls, source,
                    session0, submitted, yielded, error_at, results_at_error,
                    Harness >>

\* search(query, ...): query i goes to the provider
Search ==
    /\ pc = "loop"
    /\ \E gen \in Generators : search_results' = gen
    /\ submitted' = Append(submitted, i)
    /\ pc' = "iter"
    /\ UNCHANGED << session, api_key, remote_only, uploaded_file, button_shown,
                    clicked, resume_text, analysis, queries, i, all_results,
                    messages, exception, rendered, calls, ok_calls, run_calls,
                    source, session0, yielded, error_at, results_at_error,
                    Harness >>

\* one pass of "for url in search_results": the validity check and the append.
\* (requests.head answers only for a URL with a scheme, so a URL that passes
\* has a third segment.)
CheckLink ==
    /\ pc = "iter"
    /\ search_results.items # <<>>
    /\ LET item == Head(search_results.items)
       IN  /\ yielded' = Append(yielded, [q |-> i, url |-> item.url, head |-> item.head])
           /\ all_results' =
                IF is_valid_link(item.url, item.head)
                THEN Append(all_results, LinkResult(session["job_titles"][i], item.url))
                ELSE all_results
    /\ search_results' = [search_results EXCEPT !.items = Tail(@)]
    /\ UNCHANGED << session, api_key, remote_only, uploaded_file, button_shown,
                    clicked, pc, resume_text, analysis, queries, i, messages,
                    exception, rendered, calls, ok_calls, run_calls, source,
                    session0, submitted, error_at, results_at_error, Harness >>

\* the generator raises: except Exception -> st.warning, break
SearchError ==
    /\ pc = "iter"
    /\ search_results.items = <<>>
    /\ search_results.raises
    /\ messages' = messages \cup { Msg("rate_limit", i) }
    /\ error_at' = IF error_at = 0 THEN i ELSE error_at
    /\ results_at_error' = IF error_at = 0 THEN all_results ELSE results_at_error
    /\ pc' = AfterSearchError(i, Len(queries)).pc
    /\ i' = AfterSearchError(i, Len(queries)).i
    /\ search_results' = NoGenerator
    /\ UNCHANGED << session, api_key, remote_only, uploaded_file, button_shown,
                    clicked, resume_text, analysis, queries, all_results,
                    exception, rendered, calls, ok_calls, run_calls, source,
                    session0, submitted, yielded, Harness >>

\* the generator is exhausted: progress, politeness delay, next query
QueryDone ==
    /\ pc = "iter"
    /\ search_results.items = <<>>
    /\ ~search_results.raises
    /\ pc' = AfterQuery(i, Len(queries)).pc
    /\ i' = AfterQuery(i, Len(queries)).i
    /\ search_results' = NoGenerator
    /\ UNCHANGED << session, api_key, remote_only, uploaded_file, button_shown,
                    clicked, resume_text, analysis, queries, all_results,
                    messages, exception, rendered, calls, ok_calls, run_calls,
                    source, session0, submitted, yielded, error_at,
                    results_at_error, Harness >>

\* 4. Results Gallery
ShowResults ==
    /\ pc = "results"
    /\ rendered' = all_results
    /\ messages' = messages \cup
                     { IF all_results # <<>> THEN Msg("found", Len(all_results))
                       ELSE Msg("no_links", 0) }
    /\ pc' = "idle"
    /\ UNCHANGED << session, api_key, remote_only, uploaded_file, button_shown,
                    clicked, resume_text, analysis, queries, i, search_results,
                    all_results, exception, calls, ok_calls, run_calls, source,
                    session0, submitted, yielded, error_at, results_at_error,
                    Harness >>

Next ==
    \/ Upload
    \/ ClearFile
    \/ EnterApiKey
    \/ ToggleRemote
    \/ ClickSearch
    \/ Extract
    \/ Analyze
    \/ Display
    \/ Search
    \/ CheckLink
    \/ SearchError
    \/ QueryDone
    \/ ShowResults

Spec == Init /\ [][Next]_vars

-----------------------------------------------------------------------------
(* The helper functions on their own: the inputs are drawn from bounded    *)
(* sets, one action applies each function.                                 *)

TitleInputs == { << "Engineer" >>, << "remote" >>, << "Data", " ", "Analyst" >>, <<>> }

ReplyTokens == { "TITLES:", "SKILLS:", ",", " ", "\n", "A" }
ReplyTwoLines ==
    << "TITLES:", " ", "A", ",", " ", "B", "\n",
       "SKILLS:", " ", "X", ",", " ", "Y", ",", " ", "Z" >>
ReplyNoSkills == << "TITLES:", " ", "A", ",", "A", ",", " ", "B", " " >>
ReplyInputs ==
    (BoundedSeq(ReplyTokens, MaxReplyLen) \cup { ReplyTwoLines, ReplyNoSkills }) \ { <<>> }

UrlTokens == { "https:", "/", "linkedin", "indeed", ".com", "lever", ".co" }
UrlInputs ==
    BoundedSeq(UrlTokens, MaxUrlLen)
    \cup { UrlBoard, UrlLever, UrlGreen, UrlRef }
    \cup { << "https:", "/", "/", "www." >> \o excluded_domains[d] \o << "/", "job" >> :
             d \in 1..Len(excluded_domains) }

HeadInputs ==
    { HeadRaises } \cup { HeadStatus(c) : c \in { 200, 204, 301, 404, 500 } }

FnInit ==
    /\ session = EmptySession
    /\ api_key = <<>>
    /\ remote_only = TRUE
    /\ uploaded_file = NoFile
    /\ button_shown = FALSE
    /\ clicked = FALSE
    /\ pc = "call"
    /\ resume_text = Unbound
    /\ analysis = Unbound
    /\ queries = <<>>
    /\ i = 0
    /\ search_results = NoGenerator
    /\ all_results = <<>>
    /\ messages = {}
    /\ exception = "none"
    /\ rendered = <<>>
    /\ calls = [d \in Docs |-> 0]
    /\ ok_calls = 0
    /\ run_calls = 0
    /\ source = NoSource
    /\ session0 = EmptySession
    /\ submitted = <<>>
    /\ yielded = <<>>
    /\ error_at = 0
    /\ results_at_error = <<>>
    /\ ret = <<>>
    /\ \/ /\ fn = "generate_search_queries"
          /\ \E ts \in BoundedSeq(TitleInputs, MaxTitles), flag \in BOOLEAN :
               arg = [NoArg EXCEPT !.titles = ts, !.remote_only = flag]
       \/ /\ fn = "parse_reply"
          /\ \E text \in ReplyInputs : arg = [NoArg EXCEPT !.text = text]
       \/ /\ fn = "is_valid_link"
          /\ \E url \in UrlInputs, head \in HeadInputs :
               arg = [NoArg EXCEPT !.text = url, !.head = head]

Program == << session, api_key, remote_only, uploaded_file, button_shown, clicked,
              resume_text, analysis, queries, i, search_results, all_results,
              messages, exception, rendered, calls, ok_calls, run_calls, source,
              session0, submitted, yielded, error_at, results_at_error >>

CallGenerate ==
    /\ pc = "call"
    /\ fn = "generate_search_queries"
    /\ ret' = generate_search_queries(arg.titles, arg.remote_only)
    /\ pc' = "returned"
    /\ UNCHANGED << Program, fn, arg >>

CallParse ==
    /\ pc = "call"
    /\ fn = "parse_reply"
    /\ ret' = [titles |-> extracted_titles(arg.text), skills |-> extracted_skills(arg.text)]
    /\ pc' = "returned"
    /\ UNCHANGED << Program, fn, arg >>

CallIsValidLink ==
    /\ pc = "call"
    /\ fn = "is_valid_link"
    /\ ret' = is_valid_link(arg.text, arg.head)
    /\ pc' = "returned"
    /\ UNCHANGED << Program, fn, arg >>

FnNext ==
    \/ CallGenerate
    \/ CallParse
    \/ CallIsValidLink

FnSpec == FnInit /\ [][FnNext]_vars

-----------------------------------------------------------------------------
(* Properties *)

HasProfile(ss) == Has(ss, "job_titles") /\ Has(ss, "skills")
NoProfile(ss) == ~Has(ss, "job_titles") /\ ~Has(ss, "skills")

BlockList ==
    { << "linkedin", ".com" >>, << "indeed", ".com" >>, << "glassdoor", ".com" >>,
      << "ziprecruiter", ".com" >>, << "monster", ".com" >>, << "simplyhired", ".com" >> }

\* the validity of a URL given the answer to its HEAD request, as specified
Passes(url, head) ==
    /\ \A d \in BlockList : ~Contains(url, d)
    /\ ~head.raised
    /\ head.status = 200

\* the Link Results a log of yielded URLs must give, in the log's order
RECURSIVE ExpectedResults(_, _)
ExpectedResults(log, titles) ==
    IF log = <<>> THEN <<>>
    ELSE LET e == Head(log)
         IN  (IF Passes(e.url, e.head)
              THEN << [Role |-> titles[e.q], Source |-> Split(e.url, "/")[3], URL |-> e.url] >>
              ELSE <<>>)
             \o ExpectedResults(Tail(log), titles)

\* C1: when the provider raises during query k, no query after k is
\* submitted, a warning naming query k is reported, and the results appended
\* before the error are exactly the results the run goes on to render
\* (nothing from a later query; when the provider raised before yielding a
\* URL of query k, only results of queries before k).
C1_AbandonOnProviderError ==
    error_at # 0 =>
        /\ \A k \in 1..Len(submitted) : submitted[k] <= error_at
        /\ Msg("rate_limit", error_at) \in messages
        /\ pc \in { "results", "idle" }
        /\ all_results = results_at_error
        /\ all_results = ExpectedResults(yielded, session["job_titles"])
        /\ \A k \in 1..Len(yielded) : yielded[k].q <= error_at
        /\ (pc = "idle" => rendered = results_at_error)

C1_Witness ==
    /\ pc = "idle"
    /\ Len(queries) = 3
    /\ error_at = 2
    /\ submitted = << 1, 2 >>
    /\ Len(rendered) = 1
    /\ rendered[1].Role = session["job_titles"][1]
    /\ \A k \in 1..Len(yielded) : yielded[k].q = 1

\* C2 as stated: the Analyzer is invoked at most once for the same document
\* in a session, also after an invocation that failed.
C2_AtMostOncePerDocument == \A d \in Docs : calls[d] <= 1

\* C2 as amended: the Analyzer is invoked at most once per run and only in a
\* run that started without a Profile; at most one invocation of the session
\* returns a non-empty reply, and it is the one that created the Profile.
C2_AtMostOneSuccessfulAnalysis ==
    /\ run_calls <= 1
    /\ (run_calls > 0 => NoProfile(session0))
    /\ ok_calls <= 1
    /\ (ok_calls = 1 <=> Has(session, "job_titles"))

C2_Witness ==
    /\ pc = "idle"
    /\ uploaded_file.doc = "d1"
    /\ calls["d1"] = 2
    /\ calls["d2"] = 0
    /\ ok_calls = 1
    /\ run_calls = 1
    /\ HasProfile(session)

\* C3: once a Profile exists no step invokes the Analyzer and no step changes
\* the titles or the skills.
C3_ProfileNeverReanalysed ==
    [][ Has(session, "job_titles") =>
          /\ session' = session
          /\ calls' = calls
          /\ run_calls' <= run_calls ]_vars

C3_Witness ==
    /\ pc = "idle"
    /\ HasProfile(session)
    /\ source["job_titles"].doc = "d1"
    /\ uploaded_file.doc = "d2"
    /\ Truthy(resume_text)
    /\ remote_only = FALSE
    /\ error_at = 1

\* C4: titles are in the session exactly when skills are, and then both were
\* parsed from the reply of one and the same Analyzer call.
C4_ProfileAllOrNothing ==
    /\ Has(session, "job_titles") <=> Has(session, "skills")
    /\ Has(session, "job_titles") =>
         /\ source["job_titles"] = source["skills"]
         /\ source["job_titles"] # NoCall
         /\ session["job_titles"] = extracted_titles(source["job_titles"].reply)
         /\ session["skills"] = extracted_skills(source["skills"].reply)

C4_Witness ==
    /\ HasProfile(session)
    /\ session["skills"] = << << "Python" >> >>
    /\ session["job_titles"] = << << "A" >> >>
    /\ calls["d2"] = 2

\* C5: no run ends with an uncaught exception.
C5_NoRunCrashes == exception = "none"

\* C6: is_valid_link returns a boolean, and returns true exactly when the URL
\* contains no block-listed domain and the HEAD request returned status 200.
C6_ValidLink ==
    (pc = "returned" /\ fn = "is_valid_link") =>
        /\ ret \in BOOLEAN
        /\ ret = Passes(arg.text, arg.head)
        /\ ((\E d \in BlockList : Contains(arg.text, d)) => ret = FALSE)
        /\ (arg.head.raised \/ arg.head.status # 200 => ret = FALSE)

C6_Witness ==
    /\ pc = "returned"
    /\ fn = "is_valid_link"
    /\ Contains(arg.text, << "simplyhired", ".com" >>)
    /\ arg.head = HeadStatus(200)
    /\ ret = FALSE

\* C7: without a provider error the results are the yielded URLs that pass the
\* validity predicate, in query order and provider order, duplicates kept,
\* each with the title of its query and the third segment of the URL; every
\* query is submitted once, in order, and the gallery shows that list.
C7_ResultsAreTheValidLinks ==
    error_at = 0 =>
        /\ \A k \in 1..Len(submitted) : submitted[k] = k
        /\ \A k \in 1..Len(yielded) :
             /\ yielded[k].q \in 1..Len(submitted)
             /\ (k > 1 => yielded[k - 1].q <= yielded[k].q)
        /\ (yielded # <<>> =>
              all_results = ExpectedResults(yielded, session["job_titles"]))
        /\ (pc = "idle" /\ submitted # <<>> =>
              /\ Len(submitted) = Len(session["job_titles"])
              /\ rendered = all_results)

C7_Witness ==
    /\ pc = "idle"
    /\ error_at = 0
    /\ Len(session["job_titles"]) = 2
    /\ Len(yielded) = 6
    /\ \A q \in 1..2 :
         /\ yielded[3 * q - 2] = [q |-> q, url |-> UrlBoard, head |-> HeadStatus(200)]
         /\ yielded[3 * q - 1] = [q |-> q, url |-> UrlLever, head |-> HeadStatus(200)]
         /\ yielded[3 * q] = [q |-> q, url |-> UrlGreen, head |-> HeadStatus(404)]
    /\ Len(rendered) = 2
    /\ \A q \in 1..2 :
         rendered[q] = [Role |-> session["job_titles"][q],
                        Source |-> << "jobs.", "lever", ".co" >>,
                        URL |-> UrlLever]


\* the position of the first occurrence of sub in s
FirstIndex(s, sub) ==
    CHOOSE k \in 1..Len(s) :
        /\ SubSeq(s, k, k + Len(sub) - 1) = sub
        /\ \A j \in 1..(k - 1) : SubSeq(s, j, j + Len(sub) - 1) # sub

\* C8: generate_search_queries returns one query per title, in order; each
\* holds the four site restrictions, the quoted title and both exclusion
\* terms, and what follows the quoted title holds "remote" in quotes exactly
\* when remote_only is set.
C8_OneQueryPerTitle ==
    (pc = "returned" /\ fn = "generate_search_queries") =>
        /\ Len(ret) = Len(arg.titles)
        /\ \A k \in 1..Len(ret) :
             LET q == ret[k]
                 quoted == << "\"" >> \o arg.titles[k] \o << "\"" >>
             IN  /\ \A site \in { "site:lever.co", "site:greenhouse.io",
                                  "site:myworkdayjobs.com", "site:smartrecruiters.com" } :
                        Contains(q, << site >>)
                 /\ Contains(q, quoted)
                 /\ Contains(q, << "-intitle:archive" >>)
                 /\ Contains(q, << "-intitle:closed" >>)
                 /\ LET after == SubSeq(q, FirstIndex(q, quoted) + Len(quoted), Len(q))
                    IN  Contains(after, << "\"", "remote", "\"" >>) <=> arg.remote_only

C8_Witness ==
    /\ pc = "returned"
    /\ fn = "generate_search_queries"
    /\ arg.titles = << << "Engineer" >>, << "remote" >> >>
    /\ ~arg.remote_only
    /\ Len(ret) = 2
    /\ Contains(ret[1], << "\"", "Engineer", "\"" >>)
    /\ ~Contains(ret[1], << "\"", "remote", "\"" >>)

\* the line the parser takes for a marker, as specified
RECURSIVE LineFor(_, _, _)
LineFor(lines, marker, default) ==
    IF lines = <<>> THEN default
    ELSE IF Contains(Head(lines), << marker >>) THEN Head(lines)
    ELSE LineFor(Tail(lines), marker, default)

\* split on commas and trim each token
Tokens(s) == LET parts == Split(s, ",") IN [k \in 1..Len(parts) |-> Strip(parts[k])]

\* "strips the marker prefix": the marker at the start of the line is dropped
WithoutPrefix(line, marker) ==
    IF line # <<>> /\ Head(line) = marker THEN Tail(line) ELSE line

\* the other reading: the remainder is what follows the first marker
AfterMarker(line, marker) ==
    SubSeq(line, FirstIndex(line, << marker >>) + 1, Len(line))

\* every occurrence of the marker deleted, the rest of the line kept
WithoutMarker(line, marker) == SelectSeq(line, LAMBDA tok : tok # marker)

DefaultTitles == << "TITLES:", " ", "Generalist" >>
DefaultSkills == << "SKILLS:", " ", "Python" >>

\* C9 as stated: the marker prefix of the chosen line is stripped and the
\* remainder is split on commas and trimmed (under either reading of
\* "remainder").
C9_MarkerPrefixStripped ==
    (pc = "returned" /\ fn = "parse_reply") =>
        LET lines == Split(arg.text, "\n")
            tl == LineFor(lines, "TITLES:", DefaultTitles)
            sl == LineFor(lines, "SKILLS:", DefaultSkills)
        IN  /\ \/ ret.titles = Tokens(WithoutPrefix(tl, "TITLES:"))
               \/ ret.titles = Tokens(AfterMarker(tl, "TITLES:"))
            /\ \/ ret.skills = Tokens(WithoutPrefix(sl, "SKILLS:"))
               \/ ret.skills = Tokens(AfterMarker(sl, "SKILLS:"))

\* C9 as amended: every occurrence of the marker is deleted from the chosen
\* line, wherever it stands, and what is left of the line (the text before a
\* marker included) is split on commas and trimmed, order and duplicates
\* kept; the two examples of the claim hold.
C9_MarkerDeletedEverywhere ==
    (pc = "returned" /\ fn = "parse_reply") =>
        LET lines == Split(arg.text, "\n")
            tl == LineFor(lines, "TITLES:", DefaultTitles)
            sl == LineFor(lines, "SKILLS:", DefaultSkills)
        IN  /\ ret.titles = Tokens(WithoutMarker(tl, "TITLES:"))
            /\ ret.skills = Tokens(WithoutMarker(sl, "SKILLS:"))
            /\ (arg.text = ReplyTwoLines =>
                  /\ ret.titles = << << "A" >>, << "B" >> >>
                  /\ ret.skills = << << "X" >>, << "Y" >>, << "Z" >> >>)
            /\ (arg.text = ReplyNoSkills =>
                  /\ ret.titles = << << "A" >>, << "A" >>, << "B" >> >>
                  /\ ret.skills = << << "Python" >> >>)

C9_Witness ==
    /\ pc = "returned"
    /\ fn = "parse_reply"
    /\ arg.text = << "A", " ", "TITLES:", "A" >>
    /\ ret.titles = << << "A", " ", "A" >> >>
    /\ ret.skills = << << "Python" >> >>

\* C10 as stated: after a run in which extraction returned null, or the
\* Analyzer was invoked and returned null, the session holds no Profile and
\* the run submitted no query.
C10_FailureLeavesNoProfile ==
    (pc = "idle" /\ (resume_text = None \/ (run_calls > 0 /\ analysis = None))) =>
        /\ NoProfile(session)
        /\ submitted = <<>>

\* C10 as amended: such a run creates no Profile and submits no query: after
\* a null extraction the session is what it was before the run (a Profile of
\* an earlier run stays), after a null analysis there is no Profile.
C10_FailureCreatesNoProfile ==
    (resume_text = None \/ (run_calls > 0 /\ analysis = None)) =>
        /\ session = session0
        /\ (run_calls > 0 => NoProfile(session))
        /\ (resume_text = None => run_calls = 0 /\ pc = "idle")
        /\ submitted = <<>>
        /\ pc \in { "idle", "display" }

C10_Witness ==
    /\ pc = "idle"
    /\ resume_text = None
    /\ HasProfile(session)
    /\ session = session0
    /\ Msg("pdf_error", 0) \in messages

====
